---- MODULE Spec2Model ----
(***************************************************************************)
(* State-machine model of src/app.py: the robots.txt set-up at module      *)
(* level, the tenacity-wrapped fetch_url, the memoised sitemap enumeration *)
(* get_content_urls, extract_all_recipes, check_open_apis and the          *)
(* "Run Crawl" handler, under Streamlit's execution model (the script is   *)
(* executed top to bottom once per interaction).                           *)
(*                                                                         *)
(* The remote site is the environment: every HTTP attempt draws its        *)
(* outcome from a small set.  The requests (rp.read() or a fetch_url call)  *)
(* that meet anything but "200 with the usual body" are counted against a  *)
(* budget so that the state space stays finite; so are the exceptions     *)
(* raised while a fetched page is processed.                               *)
(* Sitemap documents are unparseable, or carry <loc> elements, one of      *)
(* which may have no text (loc.text is None).                              *)
(***************************************************************************)
EXTENDS Integers, Sequences, FiniteSets, TLC

\* ------------------------------------------------------------------ bounds
\* requests (rp.read() or a fetch_url call with all its attempts) that meet
\* a failed attempt or an unusual body, and fetched pages whose processing
\* raises, per process
MaxFaults == 1
\* executions of the script (Streamlit reruns) per process
MaxRuns == 2
\* direct calls of the cached get_content_urls per script execution
MaxCalls == 2
\* the years offered are FirstYear .. FirstYear + MaxYearSpan
MaxYearSpan == 1
\* largest week index offered to the full-program specification
MaxWeekIn == 2
\* longest enumeration (in buckets) explored by the enumeration specification
MaxBuckets == 10

\* ------------------------------------------------------- program constants
MaxAttempts == 3
WaitMultiplier == 1
WaitMin == 2
WaitMax == 10
MonthsPerYear == 12
WeeksPerMonth == 4
FirstYear == 2024

None == "None"

Max(a, b) == IF a >= b THEN a ELSE b
Min(a, b) == IF a <= b THEN a ELSE b

RECURSIVE Pow2(_)
Pow2(n) == IF n <= 0 THEN 1 ELSE 2 * Pow2(n - 1)

\* ----------------------------------------------------------------- fetcher
\* tenacity.wait_exponential(multiplier=1, min=2, max=10): the wait after
\* attempt number n failed.
\* (faulty variant: the lower bound left out)
wait_exponential_nomin(n) == Min(WaitMultiplier * Pow2(n - 1), WaitMax)
wait_exponential(n) ==
    Max(Max(0, WaitMin), Min(WaitMultiplier * Pow2(n - 1), WaitMax))

\* What one attempt of fetch_url can end in: requests.get raising a
\* transport error, raise_for_status raising on a 4xx/5xx status, or the
\* response being returned; requests.get(None) raises MissingSchema before
\* anything is sent.  All three exceptions are RequestExceptions.
Retriable == {"TransportError", "HTTPStatusError", "MissingSchema"}
AttemptOutcomes == {"TransportError", "HTTPStatusError", "ok"}

\* A fetch_url call in progress.
FetchStart(url) ==
    [url |-> url, attempt_number |-> 0, waits |-> <<>>, status |-> "calling"]

\* One attempt of the retrying call: the attempt is made, and the retry
\* decorator either returns the response, sleeps and retries, or gives up
\* with RetryError once stop_after_attempt(3) is reached.
\* (faulty variant: one attempt too many)
fetch_url_four(f, o) ==
    LET n == f.attempt_number + 1
        g == [f EXCEPT !.attempt_number = n]
    IN  IF o \notin Retriable THEN [g EXCEPT !.status = "returned"]
        ELSE IF n >= MaxAttempts + 1 THEN [g EXCEPT !.status = "RetryError"]
        ELSE [g EXCEPT !.status = "calling",
                       !.waits = Append(@, wait_exponential(n))]
fetch_url(f, o) ==
    LET n == f.attempt_number + 1
        g == [f EXCEPT !.attempt_number = n]
    IN  IF o \notin Retriable THEN [g EXCEPT !.status = "returned"]
        ELSE IF n >= MaxAttempts THEN [g EXCEPT !.status = "RetryError"]
        ELSE [g EXCEPT !.status = "calling",
                       !.waits = Append(@, wait_exponential(n))]

\* --------------------------------------------------------------------- URLs
\* line 89.  (faulty variant: month and week change places in the query string)
SitemapUrl_swapped(year, month, week) ==
    [kind |-> "sitemap", year |-> year, month |-> week, week |-> month]
SitemapUrl(year, month, week) ==
    [kind |-> "sitemap", year |-> year, month |-> month, week |-> week]
PageUrl(path) == [kind |-> "page", path |-> path]
RobotsUrl == [kind |-> "robots"]

UrlPie == PageUrl(<<"recipe", "pie">>)
UrlCake == PageUrl(<<"recipe", "cake">>)
UrlStory == PageUrl(<<"story", "news">>)
UrlSecret == PageUrl(<<"api", "secret">>)
UrlPublic == PageUrl(<<"api", "public", "x">>)
\* what line 93 puts in urls for a <loc> element without text: None
LocNone == [kind |-> "loc_none"]

\* ------------------------------------------------------------------- robots
\* robots.txt documents the site may serve (the directive lines of the
\* "User-agent: *" group, in file order).
RobotsA ==
    << [d |-> "disallow", v |-> <<"api">>],
       [d |-> "allow", v |-> <<"api", "public">>],
       [d |-> "crawl-delay", v |-> <<"10">>] >>
RobotsB ==
    << [d |-> "allow", v |-> <<"api", "public">>],
       [d |-> "disallow", v |-> <<"api">>] >>
RobotsTexts == {RobotsA, RobotsB}
RobotsDoc(text) == [kind |-> "robots", text |-> text]
DefaultRobots == RobotsDoc(RobotsA)
RobotsResponses == { RobotsDoc(t) : t \in RobotsTexts }

IsPrefix(p, s) == Len(p) <= Len(s) /\ \A i \in 1..Len(p) : p[i] = s[i]

SelectLines(text, ds) == SelectSeq(text, LAMBDA l : l.d \in ds)

\* RobotFileParser.parse: the rule lines of the group, in file order; a
\* Disallow with an empty value is an Allow.
RuleLine(l) ==
    [path |-> l.v, allowance |-> (l.d = "allow") \/ (l.v = <<>>)]
ParseRules(text) ==
    LET ls == SelectLines(text, {"allow", "disallow"})
    IN  [i \in 1..Len(ls) |-> RuleLine(ls[i])]

\* rp = RobotFileParser() followed by set_url: nothing read yet.
RpNew ==
    [disallow_all |-> FALSE, allow_all |-> FALSE, last_checked |-> FALSE,
     rulelines |-> <<>>]

\* How the urllib download inside rp.read() can end.
ReadOutcomes == {"ok", "URLError", "HTTP403", "HTTP404", "HTTP500"}

\* rp.read(): 401/403 sets disallow_all, another 4xx sets allow_all, any
\* other HTTP error leaves the parser as it was; a body is parsed.
\* (A URLError is not caught: see LoadModule.)
rp_read(rp0, o, text) ==
    CASE o = "HTTP403" -> [rp0 EXCEPT !.disallow_all = TRUE]
      [] o = "HTTP404" -> [rp0 EXCEPT !.allow_all = TRUE]
      [] o = "ok" -> [rp0 EXCEPT !.last_checked = TRUE,
                                 !.rulelines = ParseRules(text)]
      [] OTHER -> rp0

\* Entry.allowance: the first rule line that applies decides.
RECURSIVE allowance(_, _)
allowance(rulelines, path) ==
    IF rulelines = <<>> THEN TRUE
    ELSE IF IsPrefix(Head(rulelines).path, path) THEN Head(rulelines).allowance
    ELSE allowance(Tail(rulelines), path)

\* rp.can_fetch("*", None) raises TypeError (urllib.parse.unquote(None)) as
\* soon as it gets to the rules; the three early returns come before that
can_fetch_raises(r, url) ==
    url = LocNone /\ ~r.disallow_all /\ ~r.allow_all /\ r.last_checked

\* rp.can_fetch("*", url), when it does not raise
can_fetch(r, url) ==
    IF r.disallow_all THEN FALSE
    ELSE IF r.allow_all THEN TRUE
    ELSE IF ~r.last_checked THEN FALSE
    ELSE allowance(r.rulelines, url.path)

\* get_robots_summary: the four lists read off the text.
get_robots_summary(text) ==
    LET vals(d) == LET ls == SelectLines(text, {d})
                   IN  [i \in 1..Len(ls) |-> ls[i].v]
        cd == vals("crawl-delay")
    IN  [built |-> TRUE,
         allowed |-> vals("allow"), disallowed |-> vals("disallow"),
         crawl_delay |-> IF cd = <<>> THEN None ELSE cd[Len(cd)],
         sitemaps |-> vals("sitemap")]

\* ------------------------------------------------------- sitemap documents
BodyDefault == <<UrlPie, UrlSecret>>
BodyFive == <<UrlPie, UrlCake, UrlSecret, UrlStory, UrlPublic>>
BodyNoText == <<UrlPie, LocNone>>
SitemapDoc(ok, locs) == [kind |-> "sitemap", xml_ok |-> ok, locs |-> locs]
DefaultResponse == SitemapDoc(TRUE, BodyDefault)
\* the last one is a body with <loc> elements in it that is not well-formed
SitemapResponses ==
    { DefaultResponse, SitemapDoc(TRUE, BodyFive), SitemapDoc(TRUE, <<>>),
      SitemapDoc(TRUE, BodyNoText), SitemapDoc(FALSE, BodyDefault) }

\* ---------------------------------------------------- get_content_urls
\* the loops are over
NoBucket == [done |-> TRUE, year |-> 0, month |-> 0, week |-> 0]
\* args is the positional argument tuple
\* (start_year, start_month, start_week, end_year, end_month, end_week).
start_year(a) == a[1]
start_month(a) == a[2]
start_week(a) == a[3]
end_year(a) == a[4]
end_month(a) == a[5]
end_week(a) == a[6]

m_start(a, year) == IF year = start_year(a) THEN start_month(a) ELSE 1
m_end(a, year) == IF year = end_year(a) THEN end_month(a) ELSE MonthsPerYear


\* The break of the week loop.
\* (faulty variant: the end week cuts every month)
week_break_every(a, year, month, week) == week > end_week(a)
week_break(a, year, month, week) ==
    year = end_year(a) /\ month = end_month(a) /\ week > end_week(a)

\* The three nested loops, entered with the loop variables at
\* (year, month, week): the next bucket for which the loop body runs.
RECURSIVE Seek(_, _, _, _)
Seek(a, year, month, week) ==
    IF year > end_year(a) THEN NoBucket
    ELSE IF month > m_end(a, year) THEN Seek(a, year + 1, m_start(a, year + 1), 1)
    ELSE IF week > WeeksPerMonth \/ week_break(a, year, month, week)
         THEN Seek(a, year, month + 1, 1)
    ELSE [done |-> FALSE, year |-> year, month |-> month, week |-> week]

first_week(a) == 1

FirstBucket(a) == Seek(a, start_year(a), m_start(a, start_year(a)), first_week(a))
NextBucket(a, b) == Seek(a, b.year, b.month, b.week + 1)

\* the buckets of a whole enumeration, in the order the loops reach them
RECURSIVE BucketsFrom(_, _)
BucketsFrom(a, b) ==
    IF b.done THEN <<>>
    ELSE <<SitemapUrl(b.year, b.month, b.week)>> \o BucketsFrom(a, NextBucket(a, b))
Buckets(a) == BucketsFrom(a, FirstBucket(a))

\* crawlable = [u for u in urls if rp.can_fetch("*", u)]
\* (faulty variant: the list is not filtered)
crawlable_of_unfiltered(r, urls) == urls
crawlable_of(r, urls) == SelectSeq(urls, LAMBDA u : can_fetch(r, u))
\* the list comprehension of line 96 raises when one of its can_fetch calls
\* does; line 96 is outside the try of lines 90-95
crawlable_raises(r, urls) ==
    \E i \in 1..Len(urls) : can_fetch_raises(r, urls[i])

\* sitemap_map[url] = crawlable on a dict kept in insertion order
DictSet(d, k, v) ==
    IF \E i \in 1..Len(d) : d[i].key = k
    THEN [i \in 1..Len(d) |-> IF d[i].key = k THEN [key |-> k, val |-> v] ELSE d[i]]
    ELSE Append(d, [key |-> k, val |-> v])

\* the cache key of the wrapper: (func.__name__, args, sorted kwargs)
CacheKey(a) == <<"get_content_urls", a, <<>>>>

\* (total_crawlable/total_checked*100) if total_checked else 0, as an exact
\* fraction [num, den]
\* (faulty variant: the division is not guarded)
crawl_score_unguarded(checked, allowed) ==
    [num |-> allowed * 100, den |-> checked]
crawl_score(checked, allowed) ==
    IF checked # 0 THEN [num |-> allowed * 100, den |-> checked]
    ELSE [num |-> 0, den |-> 1]

\* all_urls = [u for urls in sitemap_map.values() for u in urls]
RECURSIVE Flatten(_)
Flatten(d) == IF d = <<>> THEN <<>> ELSE Head(d).val \o Flatten(Tail(d))

\* ------------------------------------------------------- pages and feeds
\* "/recipe/" in u
IsRecipeUrl(u) == \E i \in 1..(Len(u.path) - 1) : u.path[i] = "recipe"

\* What the two selectors of extract_all_recipes find in a fetched page.
PageDoc(title, description) ==
    [kind |-> "page", title |-> title, description |-> description]
DefaultPage == PageDoc("Title", "Description")
PageResponses == { DefaultPage, PageDoc(None, None) }

extraction(u, page) ==
    [title |-> IF page.title # None THEN page.title ELSE "No title",
     description |-> IF page.description # None THEN page.description
                     ELSE "No description",
     link |-> u]

Feeds == << [kind |-> "feed", path |-> <<"feed", "rss">>],
            [kind |-> "feed", path |-> <<"api">>] >>


FeedDoc == [kind |-> "feed"]
NoResp == [kind |-> "none"]

\* the documents the site may answer a request for url with, and the usual one
ResponsesOf(url) ==
    CASE url.kind = "robots" -> RobotsResponses
      [] url.kind = "sitemap" -> SitemapResponses
      [] url.kind = "page" -> PageResponses
      [] OTHER -> {FeedDoc}
UsualOf(url) ==
    CASE url.kind = "robots" -> DefaultRobots
      [] url.kind = "sitemap" -> DefaultResponse
      [] url.kind = "page" -> DefaultPage
      [] OTHER -> FeedDoc

\* ------------------------------------------------------------------ state
VARIABLES
    pc,               \* where the script execution stands
    runs,             \* script executions started in this process
    budget,           \* requests that may still meet an anomaly
    rp,               \* the module-level RobotFileParser
    summary,          \* the robots summary shown
    cache_data,       \* the wrapper's dict, in insertion order
    caller,           \* who called get_content_urls: "handler" or "api"
    args,             \* the arguments of the running get_content_urls call
    bucket,           \* its loop variables year, month, week
    sitemap_map, total_checked, total_crawlable,
    ret,              \* what the last get_content_urls call returned
    fetch,            \* the fetch_url call in progress or just ended
    resp,             \* the response it returned
    score,            \* crawl_score of the handler (line 162), as a fraction
    all_urls, recipes, js_heavy, done_urls,
    available, done_feeds,
    \* history, not program state
    rp_outcome,       \* how the download of rp.read() ended in this run
    bucket_log,       \* per finished bucket of the running enumeration
    calls_log,        \* wrapper calls of this script execution:
                      \* [key, hit, raised, ret]
    crawl_requests,   \* a sitemap or page request was made in this run
    page_log          \* per URL extract_all_recipes is through with

vars == << pc, runs, budget, rp, summary, cache_data, caller, args, bucket,
           sitemap_map, total_checked, total_crawlable, ret, fetch, resp,
           score, all_urls, recipes, js_heavy, done_urls, available,
           done_feeds, rp_outcome, bucket_log, calls_log, crawl_requests,
           page_log >>

NoUrl == [kind |-> "none"]
NoFetch == [FetchStart(NoUrl) EXCEPT !.status = "idle"]
NoArgs == <<>>
NoRet == <<>>
NoSummary == [built |-> FALSE]

enum_vars == << args, bucket, sitemap_map, total_checked, total_crawlable >>
handler_vars == << score, all_urls, recipes, js_heavy, done_urls, available,
                   done_feeds, page_log >>
NoScore == [num |-> 0, den |-> 0]
module_vars == << rp, summary, rp_outcome >>

\* the state of a script execution that has just started (line 1)
Fresh ==
    /\ pc = "load"
    /\ rp = RpNew /\ summary = NoSummary /\ cache_data = <<>>
    /\ caller = None /\ args = NoArgs /\ bucket = NoBucket
    /\ sitemap_map = <<>> /\ total_checked = 0 /\ total_crawlable = 0
    /\ ret = NoRet /\ fetch = NoFetch /\ resp = NoResp
    /\ all_urls = <<>> /\ recipes = <<>> /\ js_heavy = <<>> /\ done_urls = 0
    /\ available = <<>> /\ done_feeds = 0
    /\ score = NoScore /\ page_log = <<>>
    /\ rp_outcome = None /\ bucket_log = <<>> /\ calls_log = <<>>
    /\ crawl_requests = FALSE

Init == Fresh /\ runs = 1 /\ budget = MaxFaults

\* ------------------------------------------------------------ environment
\* the outcomes an attempt may have when b requests may still go wrong (a
\* call that has failed an attempt already may fail the next ones too)
Outcomes(b) == IF b > 0 THEN AttemptOutcomes ELSE {"ok"}
Answers(b, o, all, usual) == IF b > 0 /\ o = "ok" THEN all ELSE {usual}
Cost(o, answer, usual) == IF o # "ok" \/ answer # usual THEN 1 ELSE 0

\* ------------------------------------------------------------------ inputs
Years == FirstYear..(FirstYear + MaxYearSpan)
InputRanges(months, weeks) ==
    { <<sy, sm, sw, ey, em, ew>> :
        sy \in Years, sm \in months, sw \in weeks,
        ey \in Years, em \in months, ew \in weeks }
\* ranges of the full-program specification: January of FirstYear up to
\* week 1 and up to week MaxWeekIn (the shortest and the longest), and a
\* range whose end year is before its start year
SmallRanges ==
    { << FirstYear, 1, 1, FirstYear, 1, ew >> : ew \in {1, MaxWeekIn} }
        \cup { << FirstYear + 1, 1, 1, FirstYear, 1, 1 >> }
\* ranges of the enumeration specification: everything the sidebar offers,
\* up to MaxBuckets buckets
WideRanges ==
    { a \in InputRanges(1..MonthsPerYear, 1..WeeksPerMonth) :
        Len(Buckets(a)) <= MaxBuckets }

\* ranges of the termination specification
TermRanges == { a \in WideRanges : start_month(a) \in {1, MonthsPerYear} }

DictHas(d, k) == \E i \in 1..Len(d) : d[i].key = k
DictGet(d, k) == d[CHOOSE i \in 1..Len(d) : d[i].key = k].val

\* --------------------------------------------------- module level, 18-20
\* rp.read() catches HTTPError only: a URLError leaves it as an exception
\* (faulty variant: every failure of the download is swallowed)
rp_read_raises_never(o) == FALSE
rp_read_raises(o) == o = "URLError"

\* rp.read().  An exception propagates out of the script: the execution stops.
LoadModule ==
    /\ pc = "load"
    /\ \E o \in (IF budget > 0 THEN ReadOutcomes ELSE {"ok"}) :
       \E doc \in Answers(budget, o, RobotsResponses, DefaultRobots) :
        /\ rp_outcome' = o
        /\ budget' = budget - Cost(o, doc, DefaultRobots)
        /\ IF rp_read_raises(o)
           THEN pc' = "aborted" /\ UNCHANGED << rp, fetch >>
           ELSE /\ rp' = rp_read(rp, o, doc.text)
                /\ pc' = "summary"
                /\ fetch' = FetchStart(RobotsUrl)
    /\ UNCHANGED << runs, summary, cache_data, caller, enum_vars, ret, resp,
                    handler_vars, bucket_log, calls_log, crawl_requests >>

\* ------------------------------------------------------- fetch_url, 22-31
\* One attempt of the fetch_url call in progress, whoever made it.  For the
\* URL None no request is sent: requests.get raises at once.
Attempt ==
    /\ pc \in {"summary", "enum", "classify", "apis"}
    /\ fetch.status = "calling"
    /\ IF fetch.url = LocNone
       THEN /\ fetch' = fetch_url(fetch, "MissingSchema")
            /\ resp' = NoResp
            /\ UNCHANGED << budget, crawl_requests >>
       ELSE /\ LET retried == fetch.attempt_number > 0
                   b == IF retried THEN 1 ELSE budget
               IN  \E o \in Outcomes(b) :
                   \E doc \in Answers(b, o, ResponsesOf(fetch.url),
                                       UsualOf(fetch.url)) :
                    /\ fetch' = fetch_url(fetch, o)
                    /\ resp' = IF o = "ok" THEN doc ELSE NoResp
                    /\ budget' = IF retried THEN budget
                                  ELSE budget - Cost(o, doc, UsualOf(fetch.url))
            /\ crawl_requests' =
                   (crawl_requests \/ fetch.url.kind \in {"sitemap", "page"})
    /\ UNCHANGED << pc, runs, module_vars, cache_data, caller, enum_vars, ret,
                    handler_vars, bucket_log, calls_log >>

\* summary = get_robots_summary() at line 135, after its fetch_url ended.
\* RetryError is not caught there: the execution stops.
SummaryDone ==
    /\ pc = "summary"
    /\ fetch.status \in {"returned", "RetryError"}
    /\ IF fetch.status = "returned"
       THEN summary' = get_robots_summary(resp.text) /\ pc' = "ready"
       ELSE pc' = "aborted" /\ UNCHANGED summary
    /\ fetch' = NoFetch /\ resp' = NoResp
    /\ UNCHANGED << runs, budget, rp, rp_outcome, cache_data, caller,
                    enum_vars, ret, handler_vars, bucket_log, calls_log,
                    crawl_requests >>

\* ------------------------------------------- what follows get_content_urls
\* The call returns result to its caller.  A direct caller gets the value;
\* the handler (lines 162-167) goes on to extract_all_recipes(all_urls) and,
\* when there is nothing to fetch, to check_open_apis.
Return(who, result) ==
    /\ ret' = result
    /\ resp' = NoResp
    /\ IF who = "api"
       THEN pc' = "ready" /\ fetch' = NoFetch /\ UNCHANGED handler_vars
       ELSE LET us == Flatten(result[1]) IN
            /\ score' = crawl_score(result[2], result[3])
            /\ all_urls' = us
            /\ recipes' = <<>> /\ js_heavy' = <<>> /\ done_urls' = 0
            /\ page_log' = <<>>
            /\ available' = <<>> /\ done_feeds' = 0
            /\ IF us = <<>>
               THEN pc' = "apis" /\ fetch' = FetchStart(Feeds[1])
               ELSE pc' = "classify" /\ fetch' = FetchStart(us[1])

\* the wrapper of @cache (lines 73-77) around the start of get_content_urls
\* (lines 82-89): a hit returns the stored value; a miss runs the loops up
\* to the first fetch, or to the return when no bucket is in range.
wrapper_store(d, k, v) == DictSet(d, k, v)

wrapper_hit(d, k) == DictHas(d, k)

Call(who, a) ==
    LET key == CacheKey(a)
        hit == wrapper_hit(cache_data, key)
        b == FirstBucket(a)
        empty == << <<>>, 0, 0 >>
    IN  /\ caller' = who
        /\ calls_log' = Append(calls_log,
               [key |-> key, hit |-> hit, raised |-> FALSE,
                ret |-> IF hit THEN << DictGet(cache_data, key) >>
                        ELSE IF b.done THEN << empty >> ELSE <<>>])
        /\ IF hit
           THEN /\ Return(who, DictGet(cache_data, key))
                /\ UNCHANGED << cache_data, enum_vars, bucket_log >>
           ELSE /\ args' = a
                /\ bucket' = b
                /\ sitemap_map' = <<>> /\ total_checked' = 0 /\ total_crawlable' = 0
                /\ bucket_log' = <<>>
                /\ IF b.done
                   THEN /\ cache_data' = wrapper_store(cache_data, key, empty)
                        /\ Return(who, empty)
                   ELSE /\ pc' = "enum"
                        /\ fetch' = FetchStart(SitemapUrl(b.year, b.month, b.week))
                        /\ UNCHANGED << cache_data, ret, resp, handler_vars >>
        /\ UNCHANGED << runs, budget, module_vars, crawl_requests >>

\* "Run Crawl" pressed with the sidebar's six numbers (lines 153-160)
RunCrawl(R, maxc) ==
    pc = "ready" /\ Len(calls_log) < maxc /\ \E a \in R : Call("handler", a)

\* get_content_urls called by another client of the module
CallApi(R, maxc) ==
    pc = "ready" /\ Len(calls_log) < maxc /\ \E a \in R : Call("api", a)

\* the button is not pressed: the script ends after the sidebar
NoCrawl ==
    /\ pc = "ready" /\ pc' = "finished"
    /\ UNCHANGED << runs, budget, module_vars, cache_data, caller, enum_vars,
                    ret, fetch, resp, handler_vars, bucket_log, calls_log,
                    crawl_requests >>

\* ------------------------------------------------ get_content_urls, 89-100
\* lines 90-95: the URLs of a bucket; any exception of the fetch or of the
\* XML parse leaves the empty list
\* (faulty variant: the <loc> elements of a malformed body are used)
bucket_urls_lenient(status, doc) ==
    IF status = "returned" THEN doc.locs ELSE <<>>
bucket_urls(status, doc) ==
    IF status = "returned" /\ doc.xml_ok THEN doc.locs ELSE <<>>

\* line 98
\* (faulty variant: only the allowed URLs are counted)
add_checked_crawlable(total, urls, crawlable) == total + Len(crawlable)
add_checked(total, urls, crawlable) == total + Len(urls)
\* line 99
add_crawlable(total, urls, crawlable) == total + Len(crawlable)

\* does the enumeration go on after a bucket whose fetch ended with status
\* (faulty variant: a failed fetch ends the enumeration)
goes_on_unless_error(status) == status = "returned"
goes_on(status) == TRUE

BucketOutcome(status, doc) ==
    IF status # "returned" THEN "fetch_error"
    ELSE IF ~doc.xml_ok THEN "parse_error" ELSE "ok"

\* The fetch_url call of line 91 has ended: the rest of the loop body, and
\* the loops up to the next fetch or to the return.
\* When line 96 raises, the exception leaves get_content_urls and the
\* wrapper (nothing is stored): the handler's except of line 210 logs it and
\* the script execution ends; a direct caller either catches it and goes on
\* (it may call again) or lets it propagate, which ends the execution.
EnumBody ==
    /\ pc = "enum"
    /\ fetch.status \in {"returned", "RetryError"}
    /\ IF crawlable_raises(rp, bucket_urls(fetch.status, resp))
       THEN
        /\ bucket_log' = Append(bucket_log,
               [url |-> fetch.url,
                discovered |-> Len(bucket_urls(fetch.status, resp)),
                urls |-> bucket_urls(fetch.status, resp),
                outcome |-> "raised"])
        /\ calls_log' = [calls_log EXCEPT ![Len(calls_log)].raised = TRUE]
        /\ pc' \in IF caller = "handler" THEN {"finished"}
                  ELSE {"ready", "raised"}
        /\ fetch' = NoFetch /\ resp' = NoResp
        /\ UNCHANGED << bucket, sitemap_map, total_checked, total_crawlable,
                        cache_data, ret, handler_vars >>
       ELSE
       LET urls == bucket_urls(fetch.status, resp)
           crawlable == crawlable_of(rp, urls)
           newmap == DictSet(sitemap_map, fetch.url, crawlable)
           nc == add_checked(total_checked, urls, crawlable)
           nk == add_crawlable(total_crawlable, urls, crawlable)
           b == IF goes_on(fetch.status) THEN NextBucket(args, bucket)
                ELSE NoBucket
           result == << newmap, nc, nk >>
       IN
        /\ bucket' = b
        /\ sitemap_map' = newmap
        /\ total_checked' = nc
        /\ total_crawlable' = nk
        /\ bucket_log' = Append(bucket_log,
               [url |-> fetch.url, discovered |-> Len(urls), urls |-> urls,
                outcome |-> BucketOutcome(fetch.status, resp)])
        /\ IF b.done
           THEN /\ cache_data' = wrapper_store(cache_data, CacheKey(args), result)
                /\ calls_log' = [calls_log EXCEPT ![Len(calls_log)].ret = << result >>]
                /\ Return(caller, result)
           ELSE /\ fetch' = FetchStart(SitemapUrl(b.year, b.month, b.week))
                /\ resp' = NoResp
                /\ UNCHANGED << pc, cache_data, ret, handler_vars, calls_log >>
    /\ UNCHANGED << runs, budget, module_vars, caller, args, crawl_requests >>

\* --------------------------------------------- extract_all_recipes, 103-116
\* How lines 107-113 end for one URL: "ok"; "fetch_error" when fetch_url
\* raised; "parse_error" when the parser call of line 108 (or a selector)
\* raised; "log_error" when logger.info of line 113 raised, after the
\* append of line 112.  The bare except of line 114 catches all of them.
PageOutcomes(status, u, b) ==
    IF status # "returned" THEN {"fetch_error"}
    ELSE IF b = 0 THEN {"ok"}
    ELSE IF IsRecipeUrl(u) THEN {"ok", "parse_error", "log_error"}
    ELSE {"ok", "parse_error"}

\* lines 109-112: a fetched page whose URL has "/recipe/" in it gives one
\* extraction; other pages give none
recipes_after(rs, outcome, u, page) ==
    IF outcome \in {"ok", "log_error"} /\ IsRecipeUrl(u)
    THEN Append(rs, extraction(u, page)) ELSE rs

\* lines 114-115: the except clause, inside the loop, whatever was raised
\* (faulty variant: the failed URL is skipped silently)
js_heavy_after_skipped(js, outcome, u) == js
js_heavy_after(js, outcome, u) ==
    IF outcome = "ok" THEN js ELSE Append(js, u)

\* The fetch_url call of line 107 has ended: the rest of the loop body.
PageBody ==
    /\ pc = "classify"
    /\ fetch.status \in {"returned", "RetryError"}
    /\ \E outcome \in PageOutcomes(fetch.status, all_urls[done_urls + 1], budget) :
       LET u == all_urls[done_urls + 1] IN
        /\ budget' = IF outcome \in {"parse_error", "log_error"}
                      THEN budget - 1 ELSE budget
        /\ recipes' = recipes_after(recipes, outcome, u, resp)
        /\ js_heavy' = js_heavy_after(js_heavy, outcome, u)
        /\ done_urls' = done_urls + 1
        /\ page_log' = Append(page_log,
               [url |-> fetch.url, outcome |-> outcome, page |-> resp])
        /\ IF done_urls + 1 = Len(all_urls)
           THEN pc' = "apis" /\ fetch' = FetchStart(Feeds[1])
           ELSE pc' = "classify" /\ fetch' = FetchStart(all_urls[done_urls + 2])
    /\ resp' = NoResp
    /\ UNCHANGED << runs, module_vars, cache_data, caller, enum_vars,
                    ret, score, all_urls, available, done_feeds, bucket_log,
                    calls_log, crawl_requests >>

\* ------------------------------------------------- check_open_apis, 119-128
\* The fetch_url call of line 124 has ended; after the last feed the handler
\* renders and the script execution ends (lines 186-214).
FeedBody ==
    /\ pc = "apis"
    /\ fetch.status \in {"returned", "RetryError"}
    /\ available' = IF fetch.status = "returned"
                    THEN Append(available, Feeds[done_feeds + 1])
                    ELSE available
    /\ done_feeds' = done_feeds + 1
    /\ IF done_feeds + 1 = Len(Feeds)
       THEN pc' = "finished" /\ fetch' = NoFetch
       ELSE pc' = "apis" /\ fetch' = FetchStart(Feeds[done_feeds + 2])
    /\ resp' = NoResp
    /\ UNCHANGED << runs, budget, module_vars, cache_data, caller, enum_vars,
                    ret, score, all_urls, recipes, js_heavy, done_urls,
                    bucket_log, calls_log, crawl_requests, page_log >>

\* ------------------------------------------------------------------ rerun
\* The next interaction: Streamlit executes the script again from line 1,
\* in a new namespace (rp, the wrapper and its cache_data are built anew).
Rerun ==
    /\ pc \in {"finished", "aborted", "raised"}
    /\ runs < MaxRuns
    /\ runs' = runs + 1
    /\ pc' = "load"
    /\ rp' = RpNew /\ summary' = NoSummary /\ cache_data' = <<>>
    /\ caller' = None /\ args' = NoArgs /\ bucket' = NoBucket
    /\ sitemap_map' = <<>> /\ total_checked' = 0 /\ total_crawlable' = 0
    /\ ret' = NoRet /\ fetch' = NoFetch /\ resp' = NoResp
    /\ all_urls' = <<>> /\ recipes' = <<>> /\ js_heavy' = <<>> /\ done_urls' = 0
    /\ available' = <<>> /\ done_feeds' = 0
    /\ score' = NoScore /\ page_log' = <<>>
    /\ rp_outcome' = None /\ bucket_log' = <<>> /\ calls_log' = <<>>
    /\ crawl_requests' = FALSE
    /\ UNCHANGED budget

\* --------------------------------------------------------- specifications
\* the whole program, short ranges, a site that may misbehave
Next ==
    \/ LoadModule
    \/ Attempt
    \/ SummaryDone
    \/ RunCrawl(SmallRanges, MaxCalls)
    \/ CallApi(SmallRanges, MaxCalls)
    \/ NoCrawl
    \/ EnumBody
    \/ PageBody
    \/ FeedBody
    \/ Rerun

Spec == Init /\ [][Next]_vars

\* get_content_urls alone over every range of the sidebar, called once; one
\* request of the execution may go wrong
InitEnum == Fresh /\ runs = 1 /\ budget = 1

NextEnum ==
    \/ LoadModule
    \/ Attempt
    \/ SummaryDone
    \/ CallApi(WideRanges, 1)
    \/ EnumBody

SpecEnum == InitEnum /\ [][NextEnum]_vars

\* get_content_urls over the ranges that start in January or in December,
\* with the progress the single thread of the script makes: a request ends
\* (timeout=10 at line 29, waits of at most 10 s) and the code after a
\* fetch_url call runs
NextTerm ==
    \/ LoadModule
    \/ Attempt
    \/ SummaryDone
    \/ CallApi(TermRanges, 1)
    \/ EnumBody

SpecTerm ==
    InitEnum /\ [][NextTerm]_vars /\ WF_vars(Attempt) /\ WF_vars(EnumBody)

\* ------------------------------------------------------------ properties
\* the bucket URLs requested so far by the enumeration that ran last, in
\* request order
Visited ==
    [i \in 1..Len(bucket_log) |-> bucket_log[i].url]
        \o (IF pc = "enum" THEN << fetch.url >> ELSE <<>>)

\* an enumeration has ended, with a return or with an exception
EnumEnded == args # NoArgs /\ pc # "enum"

\* the call made last
LastCall == calls_log[Len(calls_log)]

\* the call that ran the enumeration made last (a hit runs none)
LastEnum ==
    calls_log[CHOOSE i \in 1..Len(calls_log) :
        /\ ~calls_log[i].hit
        /\ \A j \in (i + 1)..Len(calls_log) : calls_log[j].hit]

\* an enumeration has run to its return
EnumDone == EnumEnded /\ ~LastEnum.raised

\* chronological order of (year, month, week)
Before(u, v) ==
    \/ u.year < v.year
    \/ u.year = v.year /\ u.month < v.month
    \/ u.year = v.year /\ u.month = v.month /\ u.week < v.week

\* the request for the bucket (year, month, week)
BucketOf(year, month, week) ==
    [kind |-> "sitemap", year |-> year, month |-> month, week |-> week]
StartBucket(a) == BucketOf(a[1], a[2], a[3])
EndBucket(a) == BucketOf(a[4], a[5], a[6])
StartLeqEnd(a) == ~Before(EndBucket(a), StartBucket(a))

\* C1: for a range whose start bucket is not after its end bucket, every
\* bucket requested is chronologically after the one requested before it
\* (so none is requested twice).
C1_StrictlyIncreasing ==
    (args # NoArgs /\ StartLeqEnd(args)) =>
        \A i \in 1..(Len(Visited) - 1) : Before(Visited[i], Visited[i + 1])

\* an enumeration that crossed a year boundary has returned
C1_Witness ==
    /\ EnumDone /\ StartLeqEnd(args)
    /\ \E i \in 1..(Len(Visited) - 1) :
        /\ Visited[i].year < Visited[i + 1].year
        /\ Visited[i].month = MonthsPerYear /\ Visited[i].week = WeeksPerMonth
    /\ Len(Visited) >= 6

\* C2 (as claimed): for a range with start <= end the buckets requested run
\* from the start bucket to the end bucket: the first is the start bucket,
\* the last is the end bucket and none is before the start bucket.
C2_StartToEnd ==
    (EnumDone /\ StartLeqEnd(args)) =>
        /\ Visited # <<>>
        /\ Visited[1] = StartBucket(args)
        /\ Visited[Len(Visited)] = EndBucket(args)
        /\ \A i \in 1..Len(Visited) : ~Before(Visited[i], StartBucket(args))
        /\ \A y \in Years, m \in 1..MonthsPerYear, w \in 1..WeeksPerMonth :
            LET b == BucketOf(y, m, w) IN
            (~Before(b, StartBucket(args)) /\ ~Before(EndBucket(args), b))
                => \E i \in 1..Len(Visited) : Visited[i] = b

\* the weeks requested of a month, and the months requested
WeeksVisited(year, month) ==
    { Visited[i].week : i \in { j \in 1..Len(Visited) :
        Visited[j].year = year /\ Visited[j].month = month } }
MonthsVisited == { << Visited[i].year, Visited[i].month >> : i \in 1..Len(Visited) }

\* C3: no week after end_week is ever requested of the month (end_year,
\* end_month); once an enumeration has returned, the weeks requested of that
\* month are exactly 1..end_week and the weeks requested of every other
\* month requested are exactly 1..4; the end month is requested whenever
\* the start month is not after it.
C3_EndWeekOnlyInEndMonth ==
    /\ args # NoArgs =>
        \A ym \in MonthsVisited :
            WeeksVisited(ym[1], ym[2]) \subseteq
                (IF ym = << args[4], args[5] >> THEN 1..args[6] ELSE 1..4)
    /\ EnumDone =>
        /\ \A ym \in MonthsVisited :
            WeeksVisited(ym[1], ym[2]) =
                IF ym = << args[4], args[5] >> THEN 1..args[6] ELSE 1..4
        /\ (~Before(BucketOf(args[4], args[5], 1), BucketOf(args[1], args[2], 1)))
            => << args[4], args[5] >> \in MonthsVisited

\* the enumeration of (2024,1,1) -> (2024,3,2) has returned after 10 buckets
C3_Witness ==
    /\ EnumDone
    /\ args = << 2024, 1, 1, 2024, 3, 2 >>
    /\ Len(Visited) = 10
    /\ WeeksVisited(2024, 2) = 1..4 /\ WeeksVisited(2024, 3) = 1..2

\* C4 (as claimed): a call whose end bucket is before its start bucket
\* requests no bucket and returns the empty mapping with both totals 0.
C4_EmptyWhenEndBeforeStart ==
    (args # NoArgs /\ ~StartLeqEnd(args)) =>
        /\ pc # "enum"
        /\ bucket_log = <<>>
        /\ ret = << <<>>, 0, 0 >>

RECURSIVE SumDiscovered(_)
SumDiscovered(log) ==
    IF log = <<>> THEN 0 ELSE Head(log).discovered + SumDiscovered(Tail(log))
RECURSIVE SumVals(_)
SumVals(d) == IF d = <<>> THEN 0 ELSE Len(Head(d).val) + SumVals(Tail(d))

\* the buckets whose loop body ran to its end
ClosedBuckets == SelectSeq(bucket_log, LAMBDA e : e.outcome # "raised")

\* C5: while an enumeration runs and when it has ended, total_checked is
\* the sum of the numbers of URLs discovered and total_crawlable the sum of
\* the lengths of the allowed lists over the entries of sitemap_map, which
\* has exactly one entry per bucket processed, in order (a bucket at which
\* line 96 raised is the last one requested and has none); the tuple returned
\* is these three values, and every returned mapping has one entry per
\* bucket of its range.
C5_TotalsAreSums ==
    /\ args # NoArgs =>
        /\ total_checked = SumDiscovered(ClosedBuckets)
        /\ total_crawlable = SumVals(sitemap_map)
        /\ Len(sitemap_map) = Len(ClosedBuckets)
        /\ \A i \in 1..Len(sitemap_map) : sitemap_map[i].key = bucket_log[i].url
        /\ \A i \in 1..Len(bucket_log) :
            bucket_log[i].outcome = "raised" => i = Len(bucket_log)
    /\ (calls_log # <<>> /\ pc # "enum" /\ ~LastCall.hit /\ ~LastCall.raised) =>
        ret = << sitemap_map, total_checked, total_crawlable >>
    /\ \A i \in 1..Len(calls_log) :
        calls_log[i].ret # <<>> =>
            LET r == calls_log[i].ret[1]
                bs == Buckets(calls_log[i].key[2])
            IN  /\ r[3] = SumVals(r[1])
                /\ Len(r[1]) = Len(bs)
                /\ \A j \in 1..Len(bs) : r[1][j].key = bs[j]

\* (2024,1,1) -> (2024,1,1) over a sitemap of 5 URLs, 2 of them disallowed:
\* one entry, 5 checked, 3 allowed
C5_Witness ==
    /\ args = << 2024, 1, 1, 2024, 1, 1 >>
    /\ pc # "enum"
    /\ bucket_log # <<>> /\ bucket_log[1].discovered = 5
    /\ ret # NoRet
    /\ Len(ret[1]) = 1 /\ ret[2] = 5 /\ ret[3] = 3

\* C6 (as claimed): within one script execution, a call of the wrapped
\* get_content_urls with the arguments of an earlier call is a hit: it
\* returns at once, with no request made, the value the earlier call
\* returned, so each key is enumerated at most once whatever the site would
\* answer now.
C6_SecondCallIsAHit ==
    /\ \A i \in 1..Len(calls_log) : \A j \in 1..Len(calls_log) :
        (i < j /\ calls_log[i].key = calls_log[j].key) =>
            /\ calls_log[j].hit
            /\ calls_log[j].ret = calls_log[i].ret
    /\ \A j \in 1..Len(calls_log) : calls_log[j].hit => calls_log[j].ret # <<>>
    /\ pc = "enum" => (~LastCall.hit /\ LastCall.ret = <<>>)

FetchEnded == fetch.status \in {"returned", "RetryError"}

\* C7: a fetch_url call whose first two attempts fail with a retriable
\* failure and whose third attempt succeeds returns that response after
\* exactly 3 attempts and 2 waits, each within [2,10] seconds, the second
\* not shorter than the first.
C7_RetryLaw ==
    /\ [] ((fetch.status = "returned" /\ fetch.attempt_number = 3) =>
            /\ resp # NoResp
            /\ Len(fetch.waits) = 2
            /\ \A i \in 1..2 : fetch.waits[i] >= 2 /\ fetch.waits[i] <= 10
            /\ fetch.waits[1] <= fetch.waits[2])
    /\ [][ (fetch.status = "calling" /\ fetch.attempt_number = 2
              /\ fetch' # fetch /\ resp' # NoResp)
           => (fetch'.status = "returned" /\ fetch'.attempt_number = 3
                 /\ fetch'.url = fetch.url) ]_vars

\* a call has returned on its third attempt
C7_Witness ==
    fetch.status = "returned" /\ fetch.attempt_number = 3 /\ resp # NoResp

\* C8: no fetch_url call makes more than 3 attempts: after a third failed
\* attempt the call has ended in RetryError, and a call still in progress
\* has made fewer than 3 attempts.
C8_AtMostThreeAttempts ==
    /\ fetch.attempt_number <= 3
    /\ fetch.status = "calling" => fetch.attempt_number < 3
    /\ fetch.status = "RetryError" => (fetch.attempt_number = 3 /\ resp = NoResp)
    /\ (fetch.attempt_number = 3 /\ resp = NoResp) => fetch.status = "RetryError"

\* a call has given up
C8_Witness == fetch.status = "RetryError" /\ fetch.attempt_number = 3

OkBuckets == SelectSeq(bucket_log, LAMBDA e : e.outcome = "ok")

\* C9: a bucket whose fetch gave up or whose body did not parse has an entry
\* with the empty list and adds nothing to either total, and the enumeration
\* goes on: the next bucket of the range, when there is one, is requested
\* after it, and when the enumeration has returned every bucket of the
\* range was requested.
C9_FailureDegradesOneBucket ==
    /\ args # NoArgs =>
        /\ \A i \in 1..Len(bucket_log) :
            bucket_log[i].outcome \in {"fetch_error", "parse_error"} =>
                /\ bucket_log[i].discovered = 0
                /\ i <= Len(sitemap_map)
                /\ sitemap_map[i] = [key |-> bucket_log[i].url, val |-> <<>>]
                /\ i < Len(Buckets(args)) =>
                    (i < Len(Visited) /\ Visited[i + 1] = Buckets(args)[i + 1])
        /\ total_checked = SumDiscovered(OkBuckets)
    /\ EnumDone => Visited = Buckets(args)

\* the first bucket's fetch gave up and the second bucket was fetched
C9_Witness ==
    /\ EnumDone
    /\ Len(bucket_log) = 2
    /\ bucket_log[1].outcome = "fetch_error"
    /\ bucket_log[2].outcome = "ok" /\ bucket_log[2].discovered > 0
    /\ Len(sitemap_map) = 2 /\ sitemap_map[1].val = <<>>

\* C10 (as claimed): when the robots.txt download of rp.read() fails, with
\* a transport error or an HTTP error status, no sitemap bucket and no page
\* is requested afterwards.
C10_RobotsFailureIsFatal ==
    rp_outcome \notin {None, "ok"} => ~crawl_requests

\* C10 (amended): within one script execution, an exception out of rp.read()
\* (a transport error) or the robots.txt fetch of get_robots_summary giving
\* up stops the execution before any sitemap or page request; requests are
\* made only after rp.read() returned and the summary was built.
C10_AbortBeforeCrawl ==
    /\ crawl_requests => (rp_outcome # "URLError" /\ rp_outcome # None /\ summary.built)
    /\ calls_log # <<>> => (rp_outcome # "URLError" /\ summary.built)
    /\ rp_outcome = "URLError" => pc = "aborted"
    /\ pc = "aborted" => (~crawl_requests /\ calls_log = <<>> /\ ~summary.built)

\* the robots.txt fetch of get_robots_summary gave up and the execution
\* stopped
C10_Witness ==
    pc = "aborted" /\ rp_outcome = "ok" /\ ~crawl_requests

\* ------------------------------------------------- extract_all_recipes
PagesFailed == SelectSeq(page_log, LAMBDA e : e.outcome = "fetch_error")
\* the pages at which the except clause ran
PagesRaised == SelectSeq(page_log, LAMBDA e : e.outcome # "ok")
\* the pages at which line 112 ran
PagesExtracted ==
    SelectSeq(page_log, LAMBDA e :
        e.outcome \in {"ok", "log_error"} /\ IsRecipeUrl(e.url))
UrlsOf(log) == [i \in 1..Len(log) |-> log[i].url]

\* C11: a URL whose fetch gave up after 3 attempts is appended to js_heavy
\* (which holds the URLs at which the except clause ran, in order) and gives
\* no extraction, and the loop goes on: the URLs are fetched in input order
\* and, when extract_all_recipes is over, every URL of the input has been
\* fetched.
C11_FailureGoesToJsHeavy ==
    /\ UrlsOf(page_log) = SubSeq(all_urls, 1, Len(page_log))
    /\ js_heavy = UrlsOf(PagesRaised)
    /\ [i \in 1..Len(recipes) |-> recipes[i].link] = UrlsOf(PagesExtracted)
    /\ \A i \in 1..Len(page_log) :
        page_log[i].outcome = "fetch_error" <=> page_log[i].page = NoResp
    /\ pc = "classify" =>
        /\ Len(page_log) < Len(all_urls)
        /\ fetch.url = all_urls[Len(page_log) + 1]
    /\ pc \in {"apis", "finished"} => Len(page_log) = Len(all_urls)

\* the first URL's fetch gave up, the second URL was fetched and extracted
C11_Witness ==
    /\ pc = "apis"
    /\ Len(page_log) = 2
    /\ page_log[1].outcome = "fetch_error" /\ page_log[2].outcome = "ok"
    /\ js_heavy = << all_urls[1] >>
    /\ Len(recipes) = 1

\* what the robots filter has to say of u in this script execution
RobotsAllow(u) ==
    /\ ~rp.disallow_all
    /\ \/ rp.allow_all
       \/ rp.last_checked /\ u.kind = "page" /\ allowance(rp.rulelines, u.path)

\* C12: every URL extract_all_recipes fetches is in the mapping that
\* get_content_urls returned to the handler, and every URL of a mapping is a
\* URL discovered in that bucket's sitemap which rp.can_fetch("*", url)
\* allows; no discovered URL that is disallowed is fetched.
C12_OnlyAllowedFetched ==
    /\ \A i \in 1..Len(page_log) :
        /\ RobotsAllow(page_log[i].url)
        /\ \E j \in 1..Len(ret[1]) : \E k \in 1..Len(ret[1][j].val) :
            ret[1][j].val[k] = page_log[i].url
    /\ pc = "classify" => RobotsAllow(fetch.url)
    /\ args # NoArgs =>
        \A i \in 1..Len(sitemap_map) :
            /\ \A k \in 1..Len(sitemap_map[i].val) :
                /\ RobotsAllow(sitemap_map[i].val[k])
                /\ \E m \in 1..Len(bucket_log[i].urls) :
                    bucket_log[i].urls[m] = sitemap_map[i].val[k]
            /\ \A m \in 1..Len(bucket_log[i].urls) :
                RobotsAllow(bucket_log[i].urls[m]) =>
                    \E k \in 1..Len(sitemap_map[i].val) :
                        sitemap_map[i].val[k] = bucket_log[i].urls[m]

\* a sitemap listed a disallowed URL and the classifier fetched only the
\* allowed ones
C12_Witness ==
    /\ pc = "apis" /\ caller = "handler"
    /\ bucket_log # <<>>
    /\ \E m \in 1..Len(bucket_log[1].urls) : ~RobotsAllow(bucket_log[1].urls[m])
    /\ Len(page_log) = 3
    /\ \A i \in 1..Len(page_log) : RobotsAllow(page_log[i].url)

\* --------------------------------------------------------------- robots
\* C13 (as claimed): once rp has read a robots.txt whose rules for * are
\* "Disallow: /api/" followed by "Allow: /api/public/", rp.can_fetch allows
\* /api/public/x and refuses /api/secret.
C13_AllowOverridesDisallow ==
    (rp.last_checked /\ rp.rulelines = ParseRules(RobotsA)) =>
        /\ can_fetch(rp, UrlPublic)
        /\ ~can_fetch(rp, UrlSecret)

\* ---------------------------------------------------------------- score
\* the handler has computed crawl_score (line 162)
ScoreComputed ==
    /\ caller = "handler" /\ pc \in {"classify", "apis", "finished"}
    /\ ~LastCall.raised

\* C14: in every enumeration, running or returned, 0 <= total_crawlable <=
\* total_checked; the score the handler computes is a fraction with a
\* non-zero denominator, is 0 when total_checked = 0 and
\* 100 * total_crawlable / total_checked otherwise, and lies in [0, 100].
C14_ScoreInRange ==
    /\ 0 <= total_crawlable /\ total_crawlable <= total_checked
    /\ \A i \in 1..Len(calls_log) :
        calls_log[i].ret # <<>> =>
            /\ 0 <= calls_log[i].ret[1][3]
            /\ calls_log[i].ret[1][3] <= calls_log[i].ret[1][2]
    /\ ScoreComputed =>
        /\ score.den > 0
        /\ 0 <= score.num /\ score.num <= 100 * score.den
        /\ ret[2] = 0 => score.num = 0
        /\ ret[2] # 0 => score.num * ret[2] = 100 * ret[3] * score.den

\* the handler got a result with nothing checked and scored it 0
C14_Witness ==
    /\ ScoreComputed
    /\ ret[2] = 0 /\ score.num = 0 /\ score.den > 0
    /\ bucket_log # <<>>

\* ------------------------------------------------------- failed buckets
\* the entry the loop body writes for a bucket whose sitemap was fetched and
\* parsed and has no <loc> element
EmptyBucketEntry(url) ==
    [key |-> url,
     val |-> crawlable_of(rp, bucket_urls("returned", SitemapDoc(TRUE, <<>>)))]

\* C15 (as claimed): a bucket whose fetch gave up or whose body did not
\* parse is told apart, in the mapping and the totals that are returned,
\* from a bucket fetched successfully with no <loc> element: its entry
\* differs or it counts in total_checked.
C15_FailedBucketIsMarked ==
    args # NoArgs =>
        \A i \in 1..Len(bucket_log) :
            bucket_log[i].outcome \in {"fetch_error", "parse_error"} =>
                \/ sitemap_map[i] # EmptyBucketEntry(bucket_log[i].url)
                \/ total_checked # SumDiscovered(OkBuckets)

\* ------------------------------------------------------- classification
\* the extraction due for a fetched recipe page
ExpectedExtraction(e) ==
    [title |-> IF e.page.title = "None" THEN "No title" ELSE e.page.title,
     description |-> IF e.page.description = "None" THEN "No description"
                     ELSE e.page.description,
     link |-> e.url]
\* the pages whose fetch or parse failed
PagesNotParsed ==
    SelectSeq(page_log, LAMBDA e : e.outcome \in {"fetch_error", "parse_error"})
PagesOther ==
    SelectSeq(page_log, LAMBDA e : e.outcome = "ok" /\ ~IsRecipeUrl(e.url))

\* C16 (as claimed): of the URLs classified so far, those whose fetch or
\* parse failed are exactly the elements of js_heavy; those fetched with
\* "/recipe/" in the URL have exactly one extraction each, in order, with
\* "No title" / "No description" where a selector found nothing, and are not
\* in js_heavy; those fetched without "/recipe/" are in neither list.
C16_ExactlyOneOutcome ==
    /\ js_heavy = UrlsOf(PagesNotParsed)
    /\ recipes = [i \in 1..Len(PagesExtracted) |-> ExpectedExtraction(PagesExtracted[i])]
    /\ Len(PagesNotParsed) + Len(PagesExtracted) + Len(PagesOther) = Len(page_log)
    /\ Len(js_heavy) + Len(recipes) = Len(page_log) - Len(PagesOther)

\* ------------------------------------------------------ robots downloads
\* this step sends a request for robots.txt through fetch_url
RobotsRequested ==
    /\ fetch.url = RobotsUrl /\ fetch.status = "calling"
    /\ fetch'.attempt_number = fetch.attempt_number + 1

\* C17 (as claimed): robots.txt is downloaded one time only: once rp.read()
\* has downloaded it, no step requests it again.
C17_RobotsDownloadedOnce ==
    [][ rp_outcome = "ok" => ~RobotsRequested ]_vars

\* ---------------------------------------------------------------- cache
\* C18 (as claimed): a key stored in cache_data stays stored, with the same
\* value, for the rest of the process, script executions for later
\* interactions included.
C18_CacheOutlivesRerun ==
    [][ \A i \in 1..Len(cache_data) :
            \E j \in 1..Len(cache_data') : cache_data'[j] = cache_data[i] ]_vars

\* ------------------------------------------------------- parse failures
\* the fetch_url call of a bucket has returned a body that is not XML
MalformedReturned ==
    pc = "enum" /\ fetch.status = "returned" /\ ~resp.xml_ok

\* C19: when the fetch of a bucket returns a response whose body does not
\* parse, no wait and no further attempt follows: the next step closes the
\* bucket with the empty list and moves to another URL, a response returned
\* by the first attempt was preceded by no wait, and the bucket URL has one
\* entry only.
C19_ParseFailureNotRetried ==
    /\ [] (MalformedReturned =>
            /\ fetch.attempt_number = Len(fetch.waits) + 1
            /\ fetch.attempt_number = 1 => fetch.waits = <<>>)
    /\ [] (\A i \in 1..Len(bucket_log) :
            bucket_log[i].outcome = "parse_error" =>
                /\ sitemap_map[i] = [key |-> bucket_log[i].url, val |-> <<>>]
                /\ \A j \in 1..Len(bucket_log) :
                    j # i => bucket_log[j].url # bucket_log[i].url)
    /\ [][ MalformedReturned =>
            /\ fetch'.url # fetch.url
            /\ fetch'.attempt_number = 0
            /\ Len(bucket_log') = Len(bucket_log) + 1
            /\ bucket_log'[Len(bucket_log')].url = fetch.url
            /\ bucket_log'[Len(bucket_log')].outcome = "parse_error" ]_vars

\* the first bucket's body did not parse and the second bucket was fetched
C19_Witness ==
    /\ Len(bucket_log) = 2
    /\ bucket_log[1].outcome = "parse_error" /\ bucket_log[2].outcome = "ok"
    /\ sitemap_map[1].val = <<>>
    /\ pc \in {"classify", "ready"}

\* ---------------------------------------------------------- termination
\* the buckets from the start bucket to the end bucket of a
InRange(a) ==
    { b \in { BucketOf(y, m, w) : y \in a[1]..a[4], m \in 1..MonthsPerYear,
                                  w \in 1..WeeksPerMonth } :
        ~Before(b, StartBucket(a)) /\ ~Before(EndBucket(a), b) }
\* this step makes an HTTP attempt
AttemptMade == fetch'.attempt_number = fetch.attempt_number + 1

\* C20 (as claimed): an enumeration that has started returns; no bucket URL is requested
\* by more than one fetch_url call and no call makes more than 3 attempts;
\* when it has returned, every bucket from the start bucket to the end
\* bucket was requested exactly once; every attempt is for the bucket the
\* loops stand at, all buckets before it being closed.
C20_EnumerationTerminates ==
    /\ [] (pc = "enum" =>
            /\ fetch.attempt_number <= 3
            /\ ~bucket.done
            /\ fetch.url = BucketOf(bucket.year, bucket.month, bucket.week))
    /\ [] (\A i \in 1..Len(Visited) : \A j \in 1..Len(Visited) :
            Visited[i] = Visited[j] => i = j)
    /\ [] (EnumEnded =>
            /\ ~LastEnum.raised
            /\ ret # NoRet /\ Len(ret[1]) = Len(Visited)
            /\ \A b \in InRange(args) :
                Cardinality({ i \in 1..Len(Visited) : Visited[i] = b }) = 1)
    /\ [][ (pc = "enum" /\ AttemptMade) =>
            /\ fetch'.url = fetch.url
            /\ bucket_log' = bucket_log
            /\ \A i \in 1..Len(bucket_log) : bucket_log[i].url # fetch.url ]_vars
    /\ (pc = "enum") ~> EnumDone

====
